---- MODULE Spec2Model ----
(***************************************************************************)
(* A model of the query-safety gate, the query executor, the result        *)
(* formatter and the orchestrator of the natural-language-to-SQL chatbot    *)
(* service (src/src/services/sql_service.py, chat_service.py,               *)
(* session_service.py, openai_service.py).                                  *)
(* SQL texts are TLA+ strings; the Python string methods the code uses are  *)
(* defined below character by character.                                    *)
(***************************************************************************)
EXTENDS Integers, Sequences, FiniteSets, TLC

VARIABLES
    iter_order,   \* iteration order of the set FORBIDDEN_KEYWORDS in this process
    trips,        \* the rows of table uber_trips (booking_status of each row)
    call,         \* the last service call: operation, arguments, the table
                  \* before it, its outcome, whether the process restarted since
    db_log,       \* the statements handed to the storage engine by the last call
    sessions,     \* the rows of table sessions (their session_id), in creation order
    messages,     \* the rows of table messages, in creation order
    request,      \* the last call of process_message: arguments, the stores
                  \* before it, the collaborator calls it made, its outcome
    render,       \* the last rendering of a query result: site, result, text
    inflight      \* the requests being served side by side: the step each
                  \* has reached, the session it names, what it returned

\* the state of the orchestrator and of the formatter
chatvars == <<sessions, messages, request, render, inflight>>

vars == <<iter_order, trips, call, db_log, sessions, messages, request, render, inflight>>

-----------------------------------------------------------------------------
(* Bounds of the model *)

\* longest SQL text handed to validate_sql, counted in vocabulary words
MaxAtoms == 3

\* largest number of rows in uber_trips
MaxTrips == 2

\* largest row cap a caller passes, besides the default
MaxRowCap == 1

-----------------------------------------------------------------------------
(* Python string methods *)

\* the upper-case letter of each lower-case letter
UpperOf ==
    [a |-> "A", b |-> "B", c |-> "C", d |-> "D", e |-> "E", f |-> "F", g
     |-> "G", h |-> "H", i |-> "I", j |-> "J", k |-> "K", l |-> "L", m |->
     "M", n |-> "N", o |-> "O", p |-> "P", q |-> "Q", r |-> "R", s |-> "S",
     t |-> "T", u |-> "U", v |-> "V", w |-> "W", x |-> "X", y |-> "Y", z
     |-> "Z"]

\* str.upper() on one character
UpperChar(c) == IF c \in DOMAIN UpperOf THEN UpperOf[c] ELSE c

RECURSIVE upper(_)
\* str.upper()
upper(s) ==
    IF s = "" THEN "" ELSE UpperChar(SubSeq(s, 1, 1)) \o upper(Tail(s))

\* the characters str.strip() removes
Whitespace == {" ", "\n", "\t"}

RECURSIVE lstrip(_)
lstrip(s) ==
    IF s # "" /\ SubSeq(s, 1, 1) \in Whitespace THEN lstrip(Tail(s)) ELSE s

RECURSIVE rstrip(_, _)
\* str.rstrip(chars)
rstrip(s, chars) ==
    IF s # "" /\ SubSeq(s, Len(s), Len(s)) \in chars
    THEN rstrip(SubSeq(s, 1, Len(s) - 1), chars)
    ELSE s

\* str.strip()
strip(s) == rstrip(lstrip(s), Whitespace)

\* Python's  k in s  on strings
In(k, s) ==
    \E i \in 1..(Len(s) - Len(k) + 1) : SubSeq(s, i, i + Len(k) - 1) = k

\* str.startswith(p)
startswith(s, p) ==
    Len(s) >= Len(p) /\ SubSeq(s, 1, Len(p)) = p

RECURSIVE count(_, _)
\* str.count(k): the number of non-overlapping occurrences, left to right
count(s, k) ==
    IF Len(s) < Len(k) THEN 0
    ELSE IF SubSeq(s, 1, Len(k)) = k
         THEN 1 + count(SubSeq(s, Len(k) + 1, Len(s)), k)
         ELSE count(Tail(s), k)

-----------------------------------------------------------------------------
(* SQLService: the validator *)

FORBIDDEN_KEYWORDS ==
    {"DROP", "DELETE", "UPDATE", "INSERT", "ALTER", "CREATE", "TRUNCATE",
     "EXEC", "EXECUTE", "GRANT", "REVOKE", "UNION", "--", ";"}

\* the outcome of a call: a return value, or a raised SQLServiceError
Returned(v) == [raised |-> FALSE, kind |-> "", error |-> "", value |-> v]
Raised(msg) ==
    [raised |-> TRUE, kind |-> "SQLServiceError", error |-> msg, value |-> <<>>]

ForbiddenMsg(forbidden) == "Forbidden SQL keyword detected: " \o forbidden
OnlySelectMsg == "Only SELECT queries are allowed"
MultipleMsg == "Multiple statements not allowed"
NoFromMsg == "SQL must contain FROM clause"
WrongTableMsg == "Query must reference uber_trips table"

\* for forbidden in self.FORBIDDEN_KEYWORDS: if forbidden in sql_upper: raise
\* the positions, in iteration order, of the keywords found in sql_upper
ForbiddenHits(sql_upper) ==
    {i \in 1..Len(iter_order) : In(iter_order[i], sql_upper)}

FirstHit(hits) == CHOOSE i \in hits : \A j \in hits : i <= j

\* validate_sql with the deny-list scan on the text as written
validate_sql_case_sensitive(sql) ==
    LET sql_upper == strip(upper(sql))
        hits == ForbiddenHits(strip(sql))
    IN  IF hits # {}
        THEN Raised(ForbiddenMsg(iter_order[FirstHit(hits)]))
        ELSE IF ~startswith(sql_upper, "SELECT")
        THEN Raised(OnlySelectMsg)
        ELSE IF In(";", sql) \/ count(sql, "SELECT") > 1
        THEN Raised(MultipleMsg)
        ELSE IF ~In("FROM", sql_upper)
        THEN Raised(NoFromMsg)
        ELSE IF ~In("UBER_TRIPS", sql_upper)
        THEN Raised(WrongTableMsg)
        ELSE Returned(TRUE)

\* validate_sql with the multiple-statements check before the SELECT check
validate_sql_multiple_first(sql) ==
    LET sql_upper == strip(upper(sql))
        hits == ForbiddenHits(sql_upper)
    IN  IF hits # {}
        THEN Raised(ForbiddenMsg(iter_order[FirstHit(hits)]))
        ELSE IF In(";", sql) \/ count(sql, "SELECT") > 1
        THEN Raised(MultipleMsg)
        ELSE IF ~startswith(sql_upper, "SELECT")
        THEN Raised(OnlySelectMsg)
        ELSE IF ~In("FROM", sql_upper)
        THEN Raised(NoFromMsg)
        ELSE IF ~In("UBER_TRIPS", sql_upper)
        THEN Raised(WrongTableMsg)
        ELSE Returned(TRUE)

\* validate_sql with the FROM check before the multiple-statements check
validate_sql_from_first(sql) ==
    LET sql_upper == strip(upper(sql))
        hits == ForbiddenHits(sql_upper)
    IN  IF hits # {}
        THEN Raised(ForbiddenMsg(iter_order[FirstHit(hits)]))
        ELSE IF ~startswith(sql_upper, "SELECT")
        THEN Raised(OnlySelectMsg)
        ELSE IF ~In("FROM", sql_upper)
        THEN Raised(NoFromMsg)
        ELSE IF In(";", sql) \/ count(sql, "SELECT") > 1
        THEN Raised(MultipleMsg)
        ELSE IF ~In("UBER_TRIPS", sql_upper)
        THEN Raised(WrongTableMsg)
        ELSE Returned(TRUE)

\* validate_sql without the FROM check
validate_sql_no_from_check(sql) ==
    LET sql_upper == strip(upper(sql))
        hits == ForbiddenHits(sql_upper)
    IN  IF hits # {}
        THEN Raised(ForbiddenMsg(iter_order[FirstHit(hits)]))
        ELSE IF ~startswith(sql_upper, "SELECT")
        THEN Raised(OnlySelectMsg)
        ELSE IF In(";", sql) \/ count(sql, "SELECT") > 1
        THEN Raised(MultipleMsg)
        ELSE IF ~In("UBER_TRIPS", sql_upper)
        THEN Raised(WrongTableMsg)
        ELSE Returned(TRUE)

validate_sql(sql) ==
    LET sql_upper == strip(upper(sql))
        hits == ForbiddenHits(sql_upper)
    IN  IF hits # {}
        THEN Raised(ForbiddenMsg(iter_order[FirstHit(hits)]))
        ELSE IF ~startswith(sql_upper, "SELECT")
        THEN Raised(OnlySelectMsg)
        ELSE IF In(";", sql) \/ count(sql, "SELECT") > 1
        THEN Raised(MultipleMsg)
        ELSE IF ~In("FROM", sql_upper)
        THEN Raised(NoFromMsg)
        ELSE IF ~In("UBER_TRIPS", sql_upper)
        THEN Raised(WrongTableMsg)
        ELSE Returned(TRUE)

-----------------------------------------------------------------------------
(* The SQL texts handed to the validator *)

\* the fragments the texts are made of: keywords in several letter cases,
\* deny-listed tokens, white space, the table name
SqlAtoms ==
    {"SELECT", "select", " ", ";", "Drop", "execute", "FROM", "uber_trips",
     " from Uber_Trips"}

RECURSIVE AtomStrings(_)
\* the concatenations of at most n fragments of SqlAtoms
AtomStrings(n) ==
    IF n = 0 THEN {""}
    ELSE LET shorter == AtomStrings(n - 1)
         IN  shorter \cup {s \o a : s \in shorter, a \in SqlAtoms}

ValidatorInputs == AtomStrings(MaxAtoms)

\* the deny-listed keywords that occur in some text of the model, and the rest
ObservedKeywords == {"DROP", "EXEC", "EXECUTE", ";"}
OtherKeywords ==
    <<"DELETE", "UPDATE", "INSERT", "ALTER", "CREATE", "TRUNCATE",
      "GRANT", "REVOKE", "UNION", "--">>

OrderingsOf(S) ==
    {p \in [1..Cardinality(S) -> S] : \A i, j \in DOMAIN p : p[i] = p[j] => i = j}

\* The iteration orders of the set: every relative order of the keywords that
\* can match a text of the model; the keywords that never match come last.
IterationOrders == {p \o OtherKeywords : p \in OrderingsOf(ObservedKeywords)}

\* no call made yet, or its outcome dropped
NoCall ==
    [op |-> "none", sql |-> "", limit |-> 0, before |-> <<>>,
     restarted |-> FALSE, out |-> Returned(FALSE)]

\* no request processed yet, or its outcome dropped
NoRequest == [op |-> "none"]

\* no result rendered yet, or the text dropped
NoRender == [site |-> "none"]

\* most requests served side by side
MaxRequests == 2

Procs == 1..MaxRequests

\* a request not yet received
NotReceived == [pc |-> "idle", session_id |-> "", out |-> Returned(<<>>)]

\* no request is being served
NoInflight == [p \in Procs |-> NotReceived]

\* the stores of a service that has served no request
InitStores ==
    /\ sessions = <<>>
    /\ messages = <<>>
    /\ request = NoRequest
    /\ render = NoRender
    /\ inflight = NoInflight

-----------------------------------------------------------------------------
(* The validator as a state machine *)

InitValidate ==
    /\ iter_order \in IterationOrders
    /\ trips = <<>>
    /\ call = NoCall
    /\ db_log = <<>>
    /\ InitStores

\* one call of validate_sql
ValidateSql(sql) ==
    /\ call' = [op |-> "validate_sql", sql |-> sql, limit |-> 0,
                before |-> trips, restarted |-> FALSE,
                out |-> validate_sql(sql)]
    /\ db_log' = <<>>
    /\ UNCHANGED <<iter_order, trips, chatvars>>

\* A new process: the class body builds the set FORBIDDEN_KEYWORDS again, and
\* string hashing gives it a new iteration order.
Restart ==
    /\ iter_order' \in IterationOrders
    /\ iter_order' # iter_order
    /\ call' = [call EXCEPT !.restarted = (call.op # "none")]
    /\ UNCHANGED <<trips, db_log, chatvars>>

\* the caller drops the outcome of its last call
Forget ==
    /\ call.op # "none"
    /\ call' = NoCall
    /\ db_log' = <<>>
    /\ UNCHANGED <<iter_order, trips, chatvars>>

\* The texts the caller submits: any text when it holds no outcome, else the
\* text of its last call again. Every pair of an iteration order and a call
\* outcome is reached this way.
Submitted(op, inputs) ==
    IF call.op = "none" THEN inputs
    ELSE IF call.op = op THEN {call.sql} ELSE {}

NextValidate ==
    \/ \E sql \in (IF call.op = "none" THEN ValidatorInputs ELSE {}) :
            ValidateSql(sql)
    \/ Forget

SpecValidate == InitValidate /\ [][NextValidate]_vars

\* the texts validated across restarts
RestartInputs == AtomStrings(MaxAtoms - 1)

NextRestart ==
    \/ \E sql \in Submitted("validate_sql", RestartInputs) : ValidateSql(sql)
    \/ Restart
    \/ Forget

SpecRestart == InitValidate /\ [][NextRestart]_vars

-----------------------------------------------------------------------------
(* The storage engine: table uber_trips and the statements it is handed *)

TripStatuses == {"Success", "Driver Not Found"}

RECURSIVE StatusLists(_)
StatusLists(n) ==
    IF n = 0 THEN {<<>>}
    ELSE LET shorter == StatusLists(n - 1)
         IN  shorter \cup {Append(t, st) : t \in shorter, st \in TripStatuses}

\* the tables of at most MaxTrips rows
TripTables == StatusLists(MaxTrips)

TableColumns == <<"booking_id", "booking_status">>

\* the rows of a table, in storage order
TableRows(table) ==
    [i \in 1..Len(table) |-> [booking_id |-> i, booking_status |-> table[i]]]

\* the length of the first word of t, which starts with no white space
WordLen(t) ==
    CHOOSE n \in 1..Len(t) :
        /\ n = Len(t) \/ SubSeq(t, n + 1, n + 1) \in Whitespace
        /\ \A m \in 1..n : SubSeq(t, m, m) \notin Whitespace

RECURSIVE Tokens(_)
\* the words of a statement, split at white space
Tokens(s) ==
    LET t == lstrip(s)
    IN  IF t = "" THEN <<>>
        ELSE <<SubSeq(t, 1, WordLen(t))>> \o Tokens(SubSeq(t, WordLen(t) + 1, Len(t)))

Digits == <<"0", "1", "2", "3", "4", "5", "6", "7", "8", "9">>

IsNumeral(s) ==
    /\ s # ""
    /\ \A i \in 1..Len(s) : \E d \in 1..Len(Digits) : Digits[d] = SubSeq(s, i, i)

RECURSIVE ParseInt(_)
\* the number a decimal numeral denotes
ParseInt(s) ==
    IF s = "" THEN 0
    ELSE ParseInt(SubSeq(s, 1, Len(s) - 1)) * 10
         + (CHOOSE d \in 1..Len(Digits) : Digits[d] = SubSeq(s, Len(s), Len(s))) - 1

\* a string literal 'text' and its text
IsLiteral(s) ==
    Len(s) >= 2 /\ SubSeq(s, 1, 1) = "'" /\ SubSeq(s, Len(s), Len(s)) = "'"
LiteralText(s) == SubSeq(s, 2, Len(s) - 1)

\* the words after the table name: [WHERE column = literal] [LIMIT n]
IsWhere(ws) ==
    /\ Len(ws) = 4
    /\ upper(ws[1]) = "WHERE"
    /\ ws[2] = "booking_status"
    /\ ws[3] = "="
    /\ IsLiteral(ws[4])
IsLimit(ws) ==
    Len(ws) = 2 /\ upper(ws[1]) = "LIMIT" /\ IsNumeral(ws[2])
IsTail(ws) ==
    \/ ws = <<>>
    \/ IsWhere(ws)
    \/ IsLimit(ws)
    \/ Len(ws) = 6 /\ IsWhere(SubSeq(ws, 1, 4)) /\ IsLimit(SubSeq(ws, 5, 6))

\* the select lists: *, COUNT(*), column, column AS alias
IsSelectList(ws) ==
    \/ ws = <<"*">>
    \/ Len(ws) = 1 /\ upper(ws[1]) = "COUNT(*)"
    \/ Len(ws) = 1 /\ \E c \in 1..Len(TableColumns) : TableColumns[c] = ws[1]
    \/ /\ Len(ws) = 3
       /\ \E c \in 1..Len(TableColumns) : TableColumns[c] = ws[1]
       /\ upper(ws[2]) = "AS"

\* SELECT list FROM uber_trips [WHERE booking_status = literal] [LIMIT n]
IsSelect(ws) ==
    /\ Len(ws) >= 4
    /\ upper(ws[1]) = "SELECT"
    /\ \E f \in 3..(Len(ws) - 1) :
        /\ upper(ws[f]) = "FROM"
        /\ upper(ws[f + 1]) = "UBER_TRIPS"
        /\ IsSelectList(SubSeq(ws, 2, f - 1))
        /\ IsTail(SubSeq(ws, f + 2, Len(ws)))

\* DROP TABLE uber_trips, DELETE FROM uber_trips
IsDestructive(ws) ==
    /\ Len(ws) = 3
    /\ <<upper(ws[1]), upper(ws[2])>> \in {<<"DROP", "TABLE">>, <<"DELETE", "FROM">>}
    /\ upper(ws[3]) = "UBER_TRIPS"

\* the answer of the engine to a SELECT of the form above
SelectAnswer(ws, table) ==
    LET f == CHOOSE f \in 3..(Len(ws) - 1) :
                 upper(ws[f]) = "FROM" /\ upper(ws[f + 1]) = "UBER_TRIPS"
        list == SubSeq(ws, 2, f - 1)
        tail == SubSeq(ws, f + 2, Len(ws))
        Matches(row) ==
            Len(tail) >= 4 /\ upper(tail[1]) = "WHERE"
                => row.booking_status = LiteralText(tail[4])
        matching == SelectSeq(TableRows(table), Matches)
        name == IF Len(list) = 3 THEN list[3] ELSE list[1]
        columns == IF list = <<"*">> THEN TableColumns ELSE <<name>>
        rows ==
            IF list = <<"*">> THEN matching
            ELSE IF upper(list[1]) = "COUNT(*)"
            THEN <<[c \in {name} |-> Len(matching)]>>
            ELSE [i \in 1..Len(matching) |-> [c \in {name} |-> matching[i][list[1]]]]
        n == IF tail # <<>> /\ upper(tail[Len(tail) - 1]) = "LIMIT"
             THEN ParseInt(tail[Len(tail)]) ELSE Len(rows)
        kept == IF n < Len(rows) THEN n ELSE Len(rows)
    IN  [error |-> FALSE, columns |-> columns, rows |-> SubSeq(rows, 1, kept),
         table |-> table]

EngineError(table) == [error |-> TRUE, columns |-> <<>>, rows |-> <<>>, table |-> table]

\* the most rows a statement that ends with LIMIT n can return
TopLimit(ws, table) ==
    IF Len(ws) >= 2 /\ IsLimit(SubSeq(ws, Len(ws) - 1, Len(ws)))
          /\ ParseInt(ws[Len(ws)]) < Len(table)
    THEN ParseInt(ws[Len(ws)])
    ELSE Len(table)

\* the words of a statement before its comment: -- runs to the end of the text
StripComment(ws) ==
    LET starts == {i \in 1..Len(ws) : startswith(ws[i], "--")}
    IN  IF starts = {} THEN ws
        ELSE SubSeq(ws, 1, (CHOOSE i \in starts : \A j \in starts : i <= j) - 1)

\* self.db.execute(text(sql)); result.fetchall(); result.keys()
\* The answers of the engine to a statement. A statement of none of the forms
\* above is refused, or answered with some rows within its own LIMIT.
Engine(sql, table) ==
    LET ws == StripComment(Tokens(sql))
    IN  IF IsSelect(ws) THEN {SelectAnswer(ws, table)}
        ELSE IF IsDestructive(ws)
        THEN {[error |-> TRUE, columns |-> <<>>, rows |-> <<>>, table |-> <<>>]}
        ELSE {EngineError(table)}
             \cup {[error |-> FALSE, columns |-> TableColumns,
                    rows |-> SubSeq(TableRows(table), 1, k), table |-> table]
                   : k \in 0..TopLimit(ws, table)}

-----------------------------------------------------------------------------
(* SQLService: the executor *)

\* def execute_query(self, sql: str, limit: int = 1000)
DefaultLimit == 1000

\* the statement handed to the engine with no LIMIT ever added
statement_text_unchanged(sql, limit) == sql

\* Add LIMIT if not present: the statement handed to the engine
statement_text(sql, limit) ==
    IF ~In("LIMIT", upper(sql))
    THEN rstrip(sql, {";"}) \o " LIMIT " \o ToString(limit)
    ELSE sql

ExecutionFailedMsg == "SQL execution failed: (sqlite3.OperationalError)"

\* execute_query without the call of validate_sql
execute_query_unvalidated(sql, limit) ==
    LET sent == statement_text(sql, limit)
    IN  {[out |-> IF r.error
                  THEN Raised(ExecutionFailedMsg)
                  ELSE Returned([success |-> TRUE, data |-> r.rows,
                                 row_count |-> Len(r.rows),
                                 columns |-> r.columns]),
          log |-> <<sent>>,
          table |-> r.table] : r \in Engine(sent, trips)}

\* The outcomes of execute_query: what is returned or raised, the statements
\* handed to the engine, and the table afterwards.
execute_query(sql, limit) ==
    LET v == validate_sql(sql)
        sent == statement_text(sql, limit)
    IN  IF v.raised
        THEN {[out |-> v, log |-> <<>>, table |-> trips]}
        ELSE {[out |-> IF r.error
                       THEN Raised(ExecutionFailedMsg)
                       ELSE Returned([success |-> TRUE, data |-> r.rows,
                                      row_count |-> Len(r.rows),
                                      columns |-> r.columns]),
               log |-> <<sent>>,
               table |-> r.table] : r \in Engine(sent, trips)}

-----------------------------------------------------------------------------
(* The executor as a state machine *)

CountQuery == "SELECT COUNT(*) FROM uber_trips WHERE booking_status = 'Success'"

SelectLists == {"*", "COUNT(*)", "booking_status", "booking_status AS limited"}
WhereClauses == {"", " WHERE booking_status = 'Success'"}
LimitClauses == {"", " LIMIT 2"}

\* the texts handed to execute_query: queries of the forms the engine answers,
\* and texts the validator or the engine refuses
ExecInputs ==
    {"SELECT " \o l \o " FROM uber_trips" \o w \o k :
        l \in SelectLists, w \in WhereClauses, k \in LimitClauses}
    \cup {"DROP TABLE uber_trips", "DELETE FROM uber_trips",
          "select * from Uber_Trips limit 1", "SELECT * FROM uber_trips;",
          "SELECT * FROM trips", "SELECT fare FROM uber_trips",
          "SELECT * FROM uber_trips WHERE booking_id IN (SELECT 1)"}

RowCaps == (1..MaxRowCap) \cup {DefaultLimit}

InitExec ==
    /\ iter_order \in IterationOrders
    /\ trips \in TripTables
    /\ call = NoCall
    /\ db_log = <<>>
    /\ InitStores

ExecuteQuery(sql, limit) ==
    \E o \in execute_query(sql, limit) :
        /\ call' = [op |-> "execute_query", sql |-> sql, limit |-> limit,
                    before |-> trips, restarted |-> FALSE, out |-> o.out]
        /\ db_log' = o.log
        /\ trips' = o.table
        /\ UNCHANGED <<iter_order, chatvars>>

NextExec ==
    \/ \E sql \in (IF call.op = "none" THEN ExecInputs ELSE {}), limit \in RowCaps :
            ExecuteQuery(sql, limit)
    \/ Forget

SpecExec == InitExec /\ [][NextExec]_vars

-----------------------------------------------------------------------------
(* The result formatter and the rendering inside generate_response *)

\* most rows of a rendered query result
MaxResultRows == 21

\* str(val) of a row value: the decimal numeral of a number, a string as it is
str(val) ==
    LET t == ToString(val)
    IN  IF SubSeq(t, 1, 1) = "\"" THEN SubSeq(t, 2, Len(t) - 1) ELSE t

RECURSIVE join(_, _)
\* sep.join(parts)
join(sep, parts) ==
    IF parts = <<>> THEN ""
    ELSE IF Len(parts) = 1 THEN parts[1]
    ELSE parts[1] \o sep \o join(sep, Tail(parts))

RECURSIVE concat(_)
\* the text built by appending the pieces one after the other (text += piece)
concat(pieces) ==
    IF pieces = <<>> THEN "" ELSE pieces[1] \o concat(Tail(pieces))

\* results['data'][:n]
FirstRows(data, n) == SubSeq(data, 1, IF n < Len(data) THEN n ELSE Len(data))

\* for col, val in row.items(): the items of a row, in column order
Items(row, columns) == [c \in 1..Len(columns) |-> <<columns[c], row[columns[c]]>>]

RECURSIVE RowLines(_, _, _)
\* the lines of rows i.. of the shown rows in format_results_for_llm
RowLines(shown, columns, i) ==
    IF i > Len(shown) THEN <<>>
    ELSE <<"Row " \o ToString(i) \o ":">>
         \o [c \in 1..Len(columns) |->
                "  " \o Items(shown[i], columns)[c][1] \o ": "
                     \o str(Items(shown[i], columns)[c][2])]
         \o <<"">>
         \o RowLines(shown, columns, i + 1)

\* results['data'][:10] in format_results_for_llm
FormatMaxRows == 10

\* format_results_for_llm showing as many rows as the condition of the note
format_results_for_llm_eleven(results) ==
    IF ~results.success \/ results.data = <<>>
    THEN "No results found."
    ELSE join("\n",
            <<"Query returned " \o ToString(results.row_count) \o " rows.",
              "Columns: " \o join(", ", results.columns),
              "">>
            \o RowLines(FirstRows(results.data, FormatMaxRows + 1), results.columns, 1)
            \o (IF results.row_count > FormatMaxRows
                THEN <<"... and " \o ToString(results.row_count - FormatMaxRows)
                         \o " more rows">>
                ELSE <<>>))

\* format_results_for_llm with a failed result rendered like any other
format_results_for_llm_ignores_success(results) ==
    IF results.data = <<>>
    THEN "No results found."
    ELSE join("\n",
            <<"Query returned " \o ToString(results.row_count) \o " rows.",
              "Columns: " \o join(", ", results.columns),
              "">>
            \o RowLines(FirstRows(results.data, FormatMaxRows), results.columns, 1)
            \o (IF results.row_count > FormatMaxRows
                THEN <<"... and " \o ToString(results.row_count - FormatMaxRows)
                         \o " more rows">>
                ELSE <<>>))

\* SQLService.format_results_for_llm
format_results_for_llm(results) ==
    IF ~results.success \/ results.data = <<>>
    THEN "No results found."
    ELSE join("\n",
            <<"Query returned " \o ToString(results.row_count) \o " rows.",
              "Columns: " \o join(", ", results.columns),
              "">>
            \o RowLines(FirstRows(results.data, FormatMaxRows), results.columns, 1)
            \o (IF results.row_count > FormatMaxRows
                THEN <<"... and " \o ToString(results.row_count - FormatMaxRows)
                         \o " more rows">>
                ELSE <<>>))

RECURSIVE RowPieces(_, _, _)
\* the pieces appended for rows i.. of rows_to_show in generate_response
RowPieces(rows_to_show, columns, i) ==
    IF i > Len(rows_to_show) THEN <<>>
    ELSE <<"Row " \o ToString(i) \o ":\n">>
         \o [c \in 1..Len(columns) |->
                "  " \o Items(rows_to_show[i], columns)[c][1] \o ": "
                     \o str(Items(rows_to_show[i], columns)[c][2]) \o "\n"]
         \o <<"\n">>
         \o RowPieces(rows_to_show, columns, i + 1)

\* query_results['data'][:20] in generate_response
ResponseMaxRows == 20

\* OpenAIService.generate_response: results_text, the rendering of the query
\* result put into the prompt
results_text(query_results) ==
    IF ~query_results.success \/ query_results.data = <<>>
    THEN "No results found in the database."
    ELSE concat(
            <<"Query returned " \o ToString(query_results.row_count) \o " rows.\n\n",
              "Columns: " \o join(", ", query_results.columns) \o "\n\n">>
            \o RowPieces(FirstRows(query_results.data, ResponseMaxRows),
                         query_results.columns, 1)
            \o (IF query_results.row_count > ResponseMaxRows
                THEN <<"... and " \o ToString(query_results.row_count - ResponseMaxRows)
                         \o " more rows\n">>
                ELSE <<>>))

-----------------------------------------------------------------------------
(* The renderings as a state machine *)

\* row i of a long query result
ResultRow(i) ==
    [booking_id |-> i,
     booking_status |-> IF i % 2 = 1 THEN "Success" ELSE "Driver Not Found"]

\* the column lists of the rendered results
ResultColumns == {TableColumns, <<"booking_status">>}

\* the result execute_query returns for n rows of the given columns
QueryResult(n, columns) ==
    [success |-> TRUE,
     data |-> [i \in 1..n |->
                  [c \in {columns[k] : k \in 1..Len(columns)} |-> ResultRow(i)[c]]],
     row_count |-> n,
     columns |-> columns]

\* the results handed to a rendering: those execute_query returns, the same
\* marked as failed, and the failure payload process_message builds
RenderInputs ==
    {[QueryResult(n, columns) EXCEPT !.success = ok] :
        n \in 0..MaxResultRows, columns \in ResultColumns, ok \in BOOLEAN}
    \cup {[success |-> FALSE, data |-> <<>>, error |-> OnlySelectMsg]}

RenderSites == {"format_results_for_llm", "generate_response"}

\* one rendering of a result at one of the two sites
Render(site, results) ==
    /\ render' = [site |-> site, results |-> results,
                  text |-> IF site = "format_results_for_llm"
                           THEN format_results_for_llm(results)
                           ELSE results_text(results)]
    /\ UNCHANGED <<iter_order, trips, call, db_log, sessions, messages, request, inflight>>

\* the caller drops the rendered text
DropRender ==
    /\ render.site # "none"
    /\ render' = NoRender
    /\ UNCHANGED <<iter_order, trips, call, db_log, sessions, messages, request, inflight>>

NextRender ==
    \/ \E site \in (IF render.site = "none" THEN RenderSites ELSE {}),
          results \in RenderInputs : Render(site, results)
    \/ DropRender

SpecRender == InitValidate /\ [][NextRender]_vars

-----------------------------------------------------------------------------
(* SessionService: the tables sessions and messages *)

\* most rows of table messages
MaxMessages == 4

\* settings.max_context_messages
max_context_messages == 10

\* session_exists(session_id)
session_exists(rows, session_id) ==
    \E i \in 1..Len(rows) : rows[i] = session_id

\* create_session(session_id): an existing session is returned as it is
create_session(rows, session_id) ==
    IF session_exists(rows, session_id) THEN rows ELSE Append(rows, session_id)

\* add_message that stores user messages only
add_message_user_only(store, session_id, role, content) ==
    IF role = "user"
    THEN [sessions |-> create_session(store.sessions, session_id),
          messages |-> Append(store.messages,
                              [session_id |-> session_id, role |-> role,
                               content |-> content])]
    ELSE store

\* add_message(session_id, role, content): the two tables afterwards
add_message(store, session_id, role, content) ==
    [sessions |-> create_session(store.sessions, session_id),
     messages |-> Append(store.messages,
                         [session_id |-> session_id, role |-> role,
                          content |-> content])]

\* the first max_context_messages messages of the session, as
\* get_conversation_history returns them
get_recent_conversation_history_oldest(rows, session_id) ==
    LET Own(m) == m.session_id = session_id
        own == SelectSeq(rows, Own)
        n == IF Len(own) < max_context_messages THEN Len(own)
             ELSE max_context_messages
    IN  [i \in 1..n |-> [role |-> own[i].role, content |-> own[i].content]]

\* a session service that recalls nothing
get_recent_conversation_history_nothing(rows, session_id) == <<>>

\* get_recent_conversation_history(session_id): the last max_context_messages
\* messages of the session, oldest first
get_recent_conversation_history(rows, session_id) ==
    LET Own(m) == m.session_id = session_id
        own == SelectSeq(rows, Own)
        n == IF Len(own) < max_context_messages THEN Len(own)
             ELSE max_context_messages
    IN  [i \in 1..n |-> [role |-> own[Len(own) - n + i].role,
                         content |-> own[Len(own) - n + i].content]]

-----------------------------------------------------------------------------
(* ChatService: the orchestrator *)

\* Python's None in a field that otherwise holds a text
None == "None"

\* conversation_history=None, and an explicit list of turns
NoHistory == [is_none |-> TRUE, turns |-> <<>>]
History(turns) == [is_none |-> FALSE, turns |-> turns]

\* the collaborator calls of one request that can raise
FaultPoints ==
    {"session_exists", "create_session", "get_recent_conversation_history",
     "get_schema_info", "generate_sql_query", "generate_response",
     "add_message user", "add_message assistant"}

\* str(e) of what the collaborators raise
SchemaFailedMsg == "Failed to get schema information: (sqlite3.OperationalError)"
StorageFailedMsg == "(sqlite3.OperationalError) database is locked"
GenerationFailedMsg == "Connection error."

\* one collaborator call in the order the calls were made: its name, the
\* conversation context it was given, whether it returned
Called(name, context, ok) == [call |-> name, context |-> context, ok |-> ok]

\* an exception of a class other than SQLServiceError
RaisedOther(msg) == [raised |-> TRUE, kind |-> "Exception", error |-> msg, value |-> <<>>]

FallbackText(reason) ==
    "I encountered an error processing your query: " \o reason
        \o ". Please try rephrasing your question."
UnexpectedText == "I'm sorry, I encountered an unexpected error. Please try again."

\* The locals of process_message where an exception is raised or the body
\* ends: the arguments as rebound, the tables, the statements handed to the
\* engine, the calls made so far.
Locals(user_message, session_id, context, store, table, log, trace) ==
    [user_message |-> user_message, session_id |-> session_id,
     context |-> context, store |-> store, table |-> table, log |-> log,
     trace |-> trace]

\* the result of a run of process_message: what it returns or raises, the
\* tables and the statements handed to the engine afterwards, the calls made
Finished(out, at) ==
    [out |-> out, sessions |-> at.store.sessions, messages |-> at.store.messages,
     table |-> at.table, log |-> at.log, trace |-> at.trace]

\* the locals after one more collaborator call
After(at, name, ok) ==
    [at EXCEPT !.trace = Append(@, Called(name,
                                 IF name \in {"generate_sql_query", "generate_response"}
                                 THEN at.context ELSE <<>>, ok))]

\* the locals after add_message(session_id, role, content) returned
Stored(at, role, content) ==
    [After(at, "add_message", TRUE) EXCEPT
        !.store = add_message(at.store, at.session_id, role, content)]

\* the dictionary of a success without the result metadata
SuccessOutcome_no_metadata(response_text, session_id, sql_query, query_results) ==
    [success |-> TRUE, response |-> response_text, session_id |-> session_id,
     sql_query |-> sql_query]

\* the dictionary returned at lines 82-91
SuccessOutcome(response_text, session_id, sql_query, query_results) ==
    [success |-> TRUE, response |-> response_text, session_id |-> session_id,
     sql_query |-> sql_query,
     query_results |-> [row_count |-> query_results.row_count,
                        columns |-> query_results.columns]]

\* the dictionary returned at lines 111-117
ExplainedOutcome(error_response, session_id, error) ==
    [success |-> FALSE, response |-> error_response, session_id |-> session_id,
     error |-> error, sql_query |-> None]

\* the inner handler that lets the exception go on
ExceptOpenaiError_reraise(error, at) == Finished(RaisedOther(error), at)

\* the inner handler returning the apology of the outer one
ExceptOpenaiError_generic(error, at) ==
    Finished(Returned([success |-> FALSE, response |-> UnexpectedText,
                       error |-> error, sql_query |-> None]), at)

\* the inner handler storing the two turns of the fallback
ExceptOpenaiError_persisting(error, at) ==
    Finished(Returned([success |-> FALSE, response |-> FallbackText(error),
                       error |-> error, sql_query |-> None]),
             Stored(Stored(at, "user", at.user_message),
                    "assistant", FallbackText(error)))

\* except Exception as openai_error (lines 118-125); error is str(e) of the
\* SQLServiceError being handled
ExceptOpenaiError(error, at) ==
    Finished(Returned([success |-> FALSE, response |-> FallbackText(error),
                       error |-> error, sql_query |-> None]), at)

\* the handler asking for the explanation a second time after a failure
ExceptSQLServiceError_retrying(error, at, w) ==
    ExceptOpenaiError(error, After(After(at, "generate_response", "generate_response" \notin w.fail),
                                   "generate_response", FALSE))

\* except SQLServiceError as e (lines 93-125)
ExceptSQLServiceError(error, at, w) ==
    IF "generate_response" \in w.fail
    THEN ExceptOpenaiError(error, After(at, "generate_response", FALSE))
    ELSE LET explained == After(at, "generate_response", TRUE)
         IN  IF at.session_id = ""
             THEN Finished(Returned(ExplainedOutcome(w.reply, at.session_id, error)),
                           explained)
             ELSE IF "add_message user" \in w.fail
             THEN ExceptOpenaiError(error, After(explained, "add_message", FALSE))
             ELSE IF "add_message assistant" \in w.fail
             THEN ExceptOpenaiError(error,
                      After(Stored(explained, "user", at.user_message),
                            "add_message", FALSE))
             ELSE Finished(Returned(ExplainedOutcome(w.reply, at.session_id, error)),
                           Stored(Stored(explained, "user", at.user_message),
                                  "assistant", w.reply))

\* the outer handler asking for an explanation of the failure
ExceptException_explaining(error, at) ==
    Finished(Returned([success |-> FALSE, response |-> FallbackText(error),
                       error |-> error, sql_query |-> None]),
             After(at, "generate_response", TRUE))

\* except Exception as e (lines 127-134)
ExceptException(error, at) ==
    Finished(Returned([success |-> FALSE, response |-> UnexpectedText,
                       error |-> error, sql_query |-> None]), at)

\* Get or create session (lines 42-52): the locals afterwards, or the
\* exception a call of the session service raised
GetOrCreateSession(user_message, session_id, conversation_history, w) ==
    LET start == Locals(user_message, session_id, conversation_history.turns,
                        [sessions |-> sessions, messages |-> messages],
                        trips, <<>>, <<>>)
        Fails(at, name) == [raised |-> TRUE, error |-> StorageFailedMsg,
                            at |-> After(at, name, FALSE)]
        Goes(at) == [raised |-> FALSE, error |-> "", at |-> at]
        Created(at, id) ==
            After([at EXCEPT !.session_id = id,
                             !.store.sessions = create_session(@, id)],
                  "create_session", TRUE)
        Recalled(at) ==
            After([at EXCEPT !.context =
                      get_recent_conversation_history(at.store.messages, session_id)],
                  "get_recent_conversation_history", TRUE)
        History_(at) ==
            IF ~conversation_history.is_none THEN Goes(at)
            ELSE IF "get_recent_conversation_history" \in w.fail
            THEN Fails(at, "get_recent_conversation_history")
            ELSE Goes(Recalled(at))
        looked == After(start, "session_exists", TRUE)
    IN  IF session_id # ""
        THEN IF "session_exists" \in w.fail THEN Fails(start, "session_exists")
             ELSE IF session_exists(sessions, session_id) THEN History_(looked)
             ELSE IF "create_session" \in w.fail THEN Fails(looked, "create_session")
             ELSE History_(Created(looked, session_id))
        ELSE IF "create_session" \in w.fail THEN Fails(start, "create_session")
             ELSE Goes(Created(start, w.uuid))

\* ChatService.process_message. w is what the collaborators do in this
\* request: the calls that raise (fail), the identifier uuid4 gives (uuid),
\* the text the model generates as SQL (sql) and as prose (reply), and what
\* self.sql_service.execute_query(sql_query) does (executed).
process_message(user_message, session_id, conversation_history, w) ==
    LET s == GetOrCreateSession(user_message, session_id, conversation_history, w)
        described == After(s.at, "get_schema_info", TRUE)
        generated == After(described, "generate_sql_query", TRUE)
        executed == [After(generated, "execute_query", ~w.executed.out.raised)
                        EXCEPT !.table = w.executed.table, !.log = w.executed.log]
        answered == After(executed, "generate_response", TRUE)
        with_user == Stored(answered, "user", user_message)
    IN  IF s.raised THEN ExceptException(s.error, s.at)
        ELSE IF "get_schema_info" \in w.fail
        THEN ExceptSQLServiceError(SchemaFailedMsg,
                                   After(s.at, "get_schema_info", FALSE), w)
        ELSE IF "generate_sql_query" \in w.fail
        THEN ExceptException(GenerationFailedMsg,
                             After(described, "generate_sql_query", FALSE))
        ELSE IF w.executed.out.raised
        THEN ExceptSQLServiceError(w.executed.out.error, executed, w)
        ELSE IF "generate_response" \in w.fail
        THEN ExceptException(GenerationFailedMsg,
                             After(executed, "generate_response", FALSE))
        ELSE IF answered.session_id = ""
        THEN Finished(Returned(SuccessOutcome(w.reply, answered.session_id, w.sql,
                                              w.executed.out.value)), answered)
        ELSE IF "add_message user" \in w.fail
        THEN ExceptException(StorageFailedMsg, After(answered, "add_message", FALSE))
        ELSE IF "add_message assistant" \in w.fail
        THEN ExceptException(StorageFailedMsg, After(with_user, "add_message", FALSE))
        ELSE Finished(Returned(SuccessOutcome(w.reply, answered.session_id, w.sql,
                                              w.executed.out.value)),
                      Stored(with_user, "assistant", w.reply))

\* ChatResponse(**result): the declared fields of the response model, None
\* for an optional one the dictionary leaves out; other keys are ignored
ChatResponse(result) ==
    [success |-> result.success,
     response |-> result.response,
     sql_query |-> IF "sql_query" \in DOMAIN result THEN result.sql_query ELSE None,
     query_results |-> IF "query_results" \in DOMAIN result
                       THEN result.query_results ELSE None,
     error |-> IF "error" \in DOMAIN result THEN result.error ELSE None]

\* POST /chat: what the client receives for what process_message did
chat(out) ==
    IF out.raised
    THEN [status_code |-> 500,
          detail |-> "Error processing chat message: " \o out.error]
    ELSE [status_code |-> 200, body |-> ChatResponse(out.value)]

-----------------------------------------------------------------------------
(* The orchestrator as a state machine *)

\* most collaborator calls that raise in one request
MaxFaults == 2

FaultSets == {f \in SUBSET FaultPoints : Cardinality(f) <= MaxFaults}

\* the questions, the texts the model generates, the identifiers uuid4 gives
UserMessages == {"How many successful rides were there?"}
Replies == {"There were 2 successful rides."}
Uuids == <<"uuid-1", "uuid-2">>
ChatSqls ==
    {CountQuery, "SELECT * FROM uber_trips", "SELECT fare FROM uber_trips",
     "DROP TABLE uber_trips", "DELETE FROM uber_trips -- no limit"}

\* the session identifiers a client sends: none, one of its own, one it was given
ClientSessionIds == {"", "s1"} \cup {sessions[i] : i \in 1..Len(sessions)}

\* the explicit histories a client sends
ClientHistories ==
    {NoHistory,
     History(<<[role |-> "user", content |-> "How many total trips are there?"],
               [role |-> "assistant", content |-> "There are 2 trips."]>>)}

\* str(uuid.uuid4()): an identifier no session has
FreshUuids ==
    LET unused == {i \in 1..Len(Uuids) : ~session_exists(sessions, Uuids[i])}
    IN  {Uuids[i] : i \in {j \in unused : \A k \in unused : j <= k}}

\* the table of MaxTrips trips
ChatTrips == [i \in 1..MaxTrips |-> ResultRow(i).booking_status]

\* Each generated text holds at most one of the tokens whose order varies, so
\* the outcome of its validation is the same in every order: two are kept.
ChatOrders == {o \in IterationOrders : o[1] = "DROP" /\ o[2] = ";"}

InitChat ==
    /\ iter_order \in ChatOrders
    /\ trips = ChatTrips
    /\ call = NoCall
    /\ db_log = <<>>
    /\ InitStores

\* the request made of these arguments, w being what the collaborators do
ProcessMessageOf(user_message, session_id, conversation_history, w) ==
        LET r == process_message(user_message, session_id, conversation_history, w)
            sql == w.sql
        IN  /\ request' = [op |-> "process_message",
                           user_message |-> user_message,
                           session_id |-> session_id,
                           conversation_history |-> conversation_history,
                           sessions_before |-> sessions,
                           messages_before |-> messages,
                           trips_before |-> trips,
                           generated |-> IF \E i \in 1..Len(r.trace) :
                                               /\ r.trace[i].call = "generate_sql_query"
                                               /\ r.trace[i].ok
                                         THEN sql ELSE None,
                           trace |-> r.trace, out |-> r.out,
                           delivered |-> chat(r.out)]
            /\ sessions' = r.sessions
            /\ messages' = r.messages
            /\ trips' = r.table
            /\ db_log' = r.log
            /\ UNCHANGED <<iter_order, call, render, inflight>>

\* one request whose generated SQL the executor treats as in x
ProcessMessageWith(sql, x) ==
    \E user_message \in UserMessages, session_id \in ClientSessionIds,
       conversation_history \in ClientHistories,
       fail \in FaultSets, reply \in Replies, uuid \in FreshUuids :
        ProcessMessageOf(user_message, session_id, conversation_history,
                         [fail |-> fail, uuid |-> uuid, sql |-> sql,
                          reply |-> reply, executed |-> x])

\* one call of process_message
ProcessMessage(sql) ==
    /\ Len(messages) + 2 <= MaxMessages
    /\ \E x \in execute_query(sql, DefaultLimit) : ProcessMessageWith(sql, x)

\* the client drops the outcome of its last request
ForgetRequest ==
    /\ request.op # "none"
    /\ request' = NoRequest
    /\ db_log' = <<>>
    /\ UNCHANGED <<iter_order, trips, call, sessions, messages, render, inflight>>

\* A request is made when no outcome is held; the executor is also called
\* directly, as the scripts do.
NextChat ==
    \/ \E sql \in (IF request.op = "none" /\ call.op = "none" THEN ChatSqls ELSE {}) :
            ProcessMessage(sql)
    \/ ForgetRequest
    \/ \E sql \in (IF request.op = "none" /\ call.op = "none" THEN ChatSqls ELSE {}),
          limit \in RowCaps : ExecuteQuery(sql, limit)
    \/ Forget

SpecChat == InitChat /\ [][NextChat]_vars

-----------------------------------------------------------------------------
(* The conversation context of a text-generation call *)

\* most messages stored before a history is recalled
MaxStored == 12

\* conversation_history[-settings.max_context_messages:] in generate_sql_query
\* and generate_response
recent_history(conversation_history) ==
    LET n == IF Len(conversation_history) < max_context_messages
             THEN Len(conversation_history) ELSE max_context_messages
    IN  SubSeq(conversation_history, Len(conversation_history) - n + 1,
               Len(conversation_history))

\* Table messages after n turns, numbered in creation order: all of session s1
\* (shape 0), the first two of session s2 (shape 1), or the pairs of turns
\* of s1 and s2 in alternation (shape 2).
StoredMessages(n, shape) ==
    [i \in 1..n |->
        [session_id |-> IF \/ shape = 1 /\ i <= 2
                           \/ shape = 2 /\ ((i + 1) \div 2) % 2 = 0
                        THEN "s2" ELSE "s1",
         role |-> IF i % 2 = 1 THEN "user" ELSE "assistant",
         content |-> "turn " \o ToString(i)]]

\* the rows of table sessions that the messages need, in creation order
SessionsOf(rows) ==
    LET Has(id) == \E i \in 1..Len(rows) : rows[i].session_id = id
        First(id) == CHOOSE i \in 1..Len(rows) :
                        /\ rows[i].session_id = id
                        /\ \A j \in 1..(i - 1) : rows[j].session_id # id
    IN  IF Has("s1") /\ Has("s2")
        THEN IF First("s1") < First("s2") THEN <<"s1", "s2">> ELSE <<"s2", "s1">>
        ELSE IF Has("s1") THEN <<"s1">>
        ELSE IF Has("s2") THEN <<"s2">> ELSE <<>>

InitHistory ==
    /\ iter_order \in ChatOrders
    /\ trips = ChatTrips
    /\ call = NoCall
    /\ db_log = <<>>
    /\ \E n \in 0..MaxStored, shape \in 0..2 :
            /\ messages = StoredMessages(n, shape)
            /\ sessions = SessionsOf(messages)
    /\ request = NoRequest
    /\ render = NoRender
    /\ inflight = NoInflight

\* the stored history of a session is recalled and handed to a
\* text-generation call (chat_service.py line 49, then lines 59-63)
RecallHistory(session_id) ==
    LET history == get_recent_conversation_history(messages, session_id)
    IN  /\ request' = [op |-> "get_recent_conversation_history",
                       session_id |-> session_id,
                       history |-> history,
                       context |-> recent_history(history)]
        /\ UNCHANGED <<iter_order, trips, call, db_log, sessions, messages, render, inflight>>

\* an explicit history of n turns is handed to a text-generation call
ExplicitHistory(n) ==
    LET history == [i \in 1..n |-> [role |-> StoredMessages(n, 0)[i].role,
                                    content |-> StoredMessages(n, 0)[i].content]]
    IN  /\ request' = [op |-> "generate_sql_query",
                       session_id |-> "",
                       history |-> history,
                       context |-> recent_history(history)]
        /\ UNCHANGED <<iter_order, trips, call, db_log, sessions, messages, render, inflight>>

NextHistory ==
    \/ \E session_id \in (IF request.op = "none" THEN {"s1", "s2"} ELSE {}) :
            RecallHistory(session_id)
    \/ \E n \in (IF request.op = "none" THEN 0..MaxStored ELSE {}) :
            ExplicitHistory(n)
    \/ ForgetRequest

SpecHistory == InitHistory /\ [][NextHistory]_vars

-----------------------------------------------------------------------------
(* The session service used beside the orchestrator *)

\* delete_session that leaves the messages of the session in their table
delete_session_keeping_messages(store, session_id) ==
    IF ~session_exists(store.sessions, session_id)
    THEN [returned |-> FALSE, store |-> store]
    ELSE LET Other(id) == id # session_id
         IN  [returned |-> TRUE,
              store |-> [sessions |-> SelectSeq(store.sessions, Other),
                         messages |-> store.messages]]

\* delete_session(session_id): False when there is no such session, else the
\* session is deleted, its messages with it (cascade="all, delete-orphan")
delete_session(store, session_id) ==
    IF ~session_exists(store.sessions, session_id)
    THEN [returned |-> FALSE, store |-> store]
    ELSE LET Other(id) == id # session_id
             OfOther(m) == m.session_id # session_id
         IN  [returned |-> TRUE,
              store |-> [sessions |-> SelectSeq(store.sessions, Other),
                         messages |-> SelectSeq(store.messages, OfOther)]]

\* the identifiers a caller of the session service names
SessionIds == {"s1", "s2"}

\* most messages in the store when one more is stored directly
MaxDirect == 1

\* the texts stored directly
DirectContents == {"hello"}

\* the record of a call of the session service
SessionCall(op, session_id, returned) ==
    [op |-> op, session_id |-> session_id, returned |-> returned,
     before |-> [sessions |-> sessions, messages |-> messages]]

\* create_session(session_id)
CreateSession(session_id) ==
    /\ sessions' = create_session(sessions, session_id)
    /\ call' = SessionCall("create_session", session_id, session_id)
    /\ UNCHANGED <<iter_order, trips, db_log, messages, request, render, inflight>>

\* add_message(session_id, role, content)
AddMessage(session_id, role, content) ==
    LET after == add_message([sessions |-> sessions, messages |-> messages],
                             session_id, role, content)
    IN  /\ Len(messages) < MaxDirect
        /\ sessions' = after.sessions
        /\ messages' = after.messages
        /\ call' = SessionCall("add_message", session_id, role)
        /\ UNCHANGED <<iter_order, trips, db_log, request, render, inflight>>

\* delete_session(session_id)
DeleteSession(session_id) ==
    LET r == delete_session([sessions |-> sessions, messages |-> messages],
                            session_id)
    IN  /\ sessions' = r.store.sessions
        /\ messages' = r.store.messages
        /\ call' = SessionCall("delete_session", session_id, r.returned)
        /\ UNCHANGED <<iter_order, trips, db_log, request, render, inflight>>

\* the caller drops the outcomes it holds
ForgetOutcomes ==
    /\ request.op # "none" \/ call.op # "none"
    /\ request' = NoRequest
    /\ call' = NoCall
    /\ db_log' = <<>>
    /\ UNCHANGED <<iter_order, trips, sessions, messages, render, inflight>>

\* the generated texts of the requests made beside the session service
SessionSqls == {CountQuery, "DROP TABLE uber_trips"}

\* the collaborator calls that raise in these requests
SessionFaults == {{}, {"generate_response"}, {"add_message assistant"}}

\* one call of process_message that names a session and relies on the
\* stored history
StoredRequest(sql, session_id, fail) ==
    \E x \in execute_query(sql, DefaultLimit), user_message \in UserMessages,
       reply \in Replies, uuid \in FreshUuids :
        ProcessMessageOf(user_message, session_id, NoHistory,
                         [fail |-> fail, uuid |-> uuid, sql |-> sql,
                          reply |-> reply, executed |-> x])

\* The session service is called when no outcome is held; a request is made
\* then too, and right after a delete_session whose record is still held.
NextSessions ==
    \/ \E session_id \in (IF request.op = "none" /\ call.op = "none"
                           THEN SessionIds ELSE {}) :
            CreateSession(session_id)
    \/ \E session_id \in (IF request.op = "none" /\ call.op = "none"
                           THEN SessionIds ELSE {}),
          role \in {"user", "assistant"}, content \in DirectContents :
            AddMessage(session_id, role, content)
    \/ \E session_id \in (IF request.op = "none" /\ call.op = "none"
                           THEN SessionIds ELSE {}) :
            DeleteSession(session_id)
    \/ \E sql \in (IF /\ request.op = "none"
                       /\ call.op \in {"none", "delete_session"}
                       /\ Len(messages) <= MaxDirect
                    THEN SessionSqls ELSE {}),
          session_id \in SessionIds, fail \in SessionFaults :
            StoredRequest(sql, session_id, fail)
    \/ ForgetOutcomes

SpecSessions == InitChat /\ [][NextSessions]_vars

-----------------------------------------------------------------------------
(* Requests served side by side, each with its own database session *)

IntegrityMsg == "(sqlite3.IntegrityError) UNIQUE constraint failed: sessions.session_id"

\* an INSERT into sessions with no unique index on session_id
insert_session_no_unique(rows, session_id) ==
    [raised |-> FALSE, rows |-> Append(rows, session_id)]

\* self.db.add(session); self.db.commit() of create_session: session_id is
\* declared unique, so the row of an identifier the table holds is refused
insert_session(rows, session_id) ==
    IF session_exists(rows, session_id)
    THEN [raised |-> TRUE, rows |-> rows]
    ELSE [raised |-> FALSE, rows |-> Append(rows, session_id)]

\* the question and the answer of request p
QuestionOf(p) == "question " \o ToString(p)
AnswerOf(p) == "answer " \o ToString(p)

\* the locals of request p where it stops
LocalsOf(p) ==
    Locals(QuestionOf(p), inflight[p].session_id, <<>>,
           [sessions |-> sessions, messages |-> messages], trips, <<>>, <<>>)

\* request p goes on at pc, or has returned out
GoesTo(p, pc) == [inflight EXCEPT ![p].pc = pc]
ReturnedBy(p, out) == [inflight EXCEPT ![p].pc = "done", ![p].out = out]

\* POST /chat is received with a session identifier; the turns of every
\* request received fit the table
Receive(p, session_id) ==
    /\ inflight[p].pc = "idle"
    /\ 2 * (Cardinality({q \in Procs : inflight[q].pc # "idle"}) + 1) <= MaxMessages
    /\ inflight' = [inflight EXCEPT ![p].pc = "lookup", ![p].session_id = session_id]
    /\ UNCHANGED <<iter_order, trips, call, db_log, sessions, messages, request, render>>

\* if not self.session_service.session_exists(session_id) (line 43)
Lookup(p) ==
    /\ inflight[p].pc = "lookup"
    /\ inflight' = GoesTo(p, IF session_exists(sessions, inflight[p].session_id)
                             THEN "pipeline" ELSE "check")
    /\ UNCHANGED <<iter_order, trips, call, db_log, sessions, messages, request, render>>

\* create_session: if self.session_exists(session_id): return (lines 38-40)
CreateCheck(p) ==
    /\ inflight[p].pc = "check"
    /\ inflight' = GoesTo(p, IF session_exists(sessions, inflight[p].session_id)
                             THEN "pipeline" ELSE "insert")
    /\ UNCHANGED <<iter_order, trips, call, db_log, sessions, messages, request, render>>

\* create_session: add and commit (lines 42-50); an exception ends the
\* request in except Exception
CreateInsert(p) ==
    LET r == insert_session(sessions, inflight[p].session_id)
    IN  /\ inflight[p].pc = "insert"
        /\ sessions' = r.rows
        /\ inflight' = IF r.raised
                        THEN ReturnedBy(p, ExceptException(IntegrityMsg, LocalsOf(p)).out)
                        ELSE GoesTo(p, "pipeline")
        /\ UNCHANGED <<iter_order, trips, call, db_log, messages, request, render>>

\* The history is read and the pipeline runs up to the answer (lines 48-75):
\* one read of the store, then steps that touch no shared table. The SQL
\* generation fails or the query is executed and answered.
Pipeline(p) ==
    /\ inflight[p].pc = "pipeline"
    /\ \E fail \in {{}, {"generate_sql_query"}}, x \in execute_query(CountQuery, DefaultLimit) :
            inflight' =
                IF fail # {}
                THEN ReturnedBy(p, ExceptException(GenerationFailedMsg, LocalsOf(p)).out)
                ELSE [inflight EXCEPT
                        ![p].pc = "add_user",
                        ![p].out = Returned(SuccessOutcome(AnswerOf(p),
                                       inflight[p].session_id, CountQuery, x.out.value))]
    /\ UNCHANGED <<iter_order, trips, call, db_log, sessions, messages, request, render>>

\* add_message(session_id, "user", user_message) (line 78), one transaction
AddUser(p) ==
    LET after == add_message([sessions |-> sessions, messages |-> messages],
                             inflight[p].session_id, "user", QuestionOf(p))
    IN  /\ inflight[p].pc = "add_user"
        /\ sessions' = after.sessions
        /\ messages' = after.messages
        /\ inflight' = GoesTo(p, "add_assistant")
        /\ UNCHANGED <<iter_order, trips, call, db_log, request, render>>

\* add_message(session_id, "assistant", response_text) (lines 79-80), one
\* transaction, and return (lines 82-91)
AddAssistant(p) ==
    LET after == add_message([sessions |-> sessions, messages |-> messages],
                             inflight[p].session_id, "assistant", AnswerOf(p))
    IN  /\ inflight[p].pc = "add_assistant"
        /\ sessions' = after.sessions
        /\ messages' = after.messages
        /\ inflight' = GoesTo(p, "done")
        /\ UNCHANGED <<iter_order, trips, call, db_log, request, render>>

\* the session identifiers the concurrent clients send
ConcurrentSessionIds == {"s1"}

NextConcurrent ==
    \/ \E p \in Procs, session_id \in ConcurrentSessionIds : Receive(p, session_id)
    \/ \E p \in Procs : Lookup(p)
    \/ \E p \in Procs : CreateCheck(p)
    \/ \E p \in Procs : CreateInsert(p)
    \/ \E p \in Procs : Pipeline(p)
    \/ \E p \in Procs : AddUser(p)
    \/ \E p \in Procs : AddAssistant(p)

SpecConcurrent == InitChat /\ [][NextConcurrent]_vars

-----------------------------------------------------------------------------
(* Properties of the validator *)

IsValidate == call.op = "validate_sql"
IsExec == call.op = "execute_query"

\* the deny-listed tokens the specification names
ListedTokens ==
    {"DROP", "DELETE", "UPDATE", "INSERT", "ALTER", "CREATE", "TRUNCATE",
     "GRANT", "REVOKE", "EXEC", "EXECUTE", "UNION", ";"}

\* the text contains the token, in any letter case and at any position
ContainsToken(sql, k) == In(k, upper(sql))

\* the five rules of the validator, each as the text that violates it
\* the upper-cased text u contains one of the tokens
HasAny(u, tokens) == \E k \in tokens : In(k, u)

Rule1(sql) == HasAny(upper(sql), FORBIDDEN_KEYWORDS)
Rule2(sql) == ~startswith(strip(upper(sql)), "SELECT")
Rule3(sql) == In(";", sql) \/ count(sql, "SELECT") > 1
Rule4(sql) == ~ContainsToken(sql, "FROM")
Rule5(sql) == ~ContainsToken(sql, "UBER_TRIPS")

\* C1, as claimed: a text that contains a deny-listed token is rejected and the
\* reason names that token.
C1_AsClaimed ==
    IsValidate =>
        \A k \in ListedTokens :
            ContainsToken(call.sql, k)
                => call.out.raised /\ call.out.error = ForbiddenMsg(k)

\* the call is rejected and the reason names a token of FORBIDDEN_KEYWORDS
\* that the upper-cased text u contains
NamesContainedToken(u) ==
    /\ call.out.raised
    /\ \E t \in FORBIDDEN_KEYWORDS : call.out.error = ForbiddenMsg(t) /\ In(t, u)

\* C1, amended: a text that contains a deny-listed token is rejected and the
\* reason names a token of FORBIDDEN_KEYWORDS that the text contains.
C1_RejectsNamingContainedToken ==
    IsValidate /\ HasAny(upper(call.sql), ListedTokens)
        => NamesContainedToken(upper(call.sql))

\* a token in mixed case, not at the start of the text, is named
C1_Witness ==
    /\ IsValidate
    /\ In("Drop", call.sql)
    /\ ~startswith(call.sql, "Drop")
    /\ call.out.error = ForbiddenMsg("DROP")

\* C2, as claimed: a text that does not start with SELECT after trimming and
\* case-folding is rejected with "Only SELECT queries are allowed".
C2_AsClaimed ==
    IsValidate /\ Rule2(call.sql)
        => call.out.raised /\ call.out.error = OnlySelectMsg

\* C2, amended: a text that contains no deny-listed token and does not start
\* with SELECT after trimming and case-folding is rejected with
\* "Only SELECT queries are allowed".
C2_NotSelectRejected ==
    IsValidate /\ ~Rule1(call.sql) /\ Rule2(call.sql)
        => call.out.raised /\ call.out.error = OnlySelectMsg

\* SELECT occurs in the text, but not at its start
C2_Witness ==
    /\ IsValidate
    /\ ContainsToken(call.sql, "SELECT")
    /\ ~Rule1(call.sql)
    /\ Rule2(call.sql)
    /\ call.out.error = OnlySelectMsg

\* C3, as claimed: a text with two occurrences of SELECT in any letter case, or
\* with a ';', is rejected with "Multiple statements not allowed".
C3_AsClaimed ==
    IsValidate /\ (count(upper(call.sql), "SELECT") > 1 \/ In(";", call.sql))
        => call.out.raised /\ call.out.error = MultipleMsg

\* C3, the part of the claim no reading of the reasons saves: a text with two
\* occurrences of SELECT in any letter case is rejected.
C3_TwoSelectsRejected ==
    IsValidate /\ count(upper(call.sql), "SELECT") > 1 => call.out.raised

\* C4: a text that does not contain FROM, in any letter case, is rejected.
C4_MissingFromRejected ==
    IsValidate /\ ~ContainsToken(call.sql, "FROM") => call.out.raised

\* only the FROM rule is violated
C4_Witness ==
    /\ IsValidate
    /\ ~Rule1(call.sql) /\ ~Rule2(call.sql) /\ ~Rule3(call.sql)
    /\ Rule4(call.sql) /\ ~Rule5(call.sql)
    /\ call.out.error = NoFromMsg

\* the reason of the first violated rule, in the order of the five checks
FirstViolatedRule ==
    IsValidate =>
        LET e == call.out.error
            r1 == Rule1(call.sql)
            r2 == Rule2(call.sql)
            r3 == Rule3(call.sql)
            r4 == Rule4(call.sql)
            r5 == Rule5(call.sql)
        IN  IF r1 THEN NamesContainedToken(upper(call.sql))
            ELSE IF r2 THEN call.out.raised /\ e = OnlySelectMsg
            ELSE IF r3 THEN call.out.raised /\ e = MultipleMsg
            ELSE IF r4 THEN call.out.raised /\ e = NoFromMsg
            ELSE IF r5 THEN call.out.raised /\ e = WrongTableMsg
            ELSE ~call.out.raised

NamesFirstInOrder(u) ==
    \E i \in 1..Len(iter_order) :
        /\ call.out.error = ForbiddenMsg(iter_order[i])
        /\ In(iter_order[i], u)
        /\ \A j \in 1..(i - 1) : ~In(iter_order[j], u)

C5_WitnessTwoTokens ==
    /\ IsValidate
    /\ ContainsToken(call.sql, "DROP") /\ ContainsToken(call.sql, ";")
    /\ call.restarted

\* C6, as claimed: the validator returns True exactly for the texts that
\* contain no deny-listed token, start with SELECT after trimming and
\* upper-casing, contain exactly one SELECT and no ';', contain FROM and
\* contain uber_trips in any letter case.
C6_AsClaimed ==
    IsValidate =>
        (~call.out.raised
            <=> /\ ~Rule1(call.sql)
                /\ ~Rule2(call.sql)
                /\ count(upper(call.sql), "SELECT") = 1
                /\ ~In(";", call.sql)
                /\ ContainsToken(call.sql, "FROM")
                /\ ContainsToken(call.sql, "UBER_TRIPS"))

-----------------------------------------------------------------------------
(* Properties of the executor *)

\* the text has a LIMIT clause: LIMIT is one of its words
HasLimitClause(sql) ==
    \E i \in 1..Len(Tokens(sql)) : upper(Tokens(sql)[i]) = "LIMIT"

\* C7, as claimed: a valid query with no row-limiting clause is sent followed
\* by a LIMIT equal to the row cap, and one with such a clause is sent unchanged.
C7_AsClaimed ==
    IsExec /\ db_log # <<>>
        => db_log = <<IF HasLimitClause(call.sql)
                      THEN call.sql
                      ELSE call.sql \o " LIMIT " \o ToString(call.limit)>>

\* C8, as claimed: the row_count of a successful call is at most the row cap.
C8_AsClaimed ==
    IsExec /\ ~call.out.raised => call.out.value.row_count <= call.limit

\* the reasons the validator gives
ValidatorReasons ==
    {OnlySelectMsg, MultipleMsg, NoFromMsg, WrongTableMsg}
    \cup {ForbiddenMsg(k) : k \in FORBIDDEN_KEYWORDS}

\* the text violates a rule of the validator
Rejectable(sql) ==
    Rule1(sql) \/ Rule2(sql) \/ Rule3(sql) \/ Rule4(sql) \/ Rule5(sql)

\* C9: when the validator rejects the text, execute_query raises the service's
\* error with the validator's reason, hands nothing to the storage engine, and
\* leaves the table as it was.
C9_RejectedBeforeStorage ==
    IsExec /\ Rejectable(call.sql)
        => /\ call.out.raised
           /\ call.out.kind = "SQLServiceError"
           /\ call.out.error \in ValidatorReasons
           /\ db_log = <<>>
           /\ trips = call.before

\* the dangerous query of the test script, on a table with rows
C9_Witness ==
    /\ IsExec
    /\ call.sql = "DROP TABLE uber_trips"
    /\ call.out.raised
    /\ db_log = <<>>
    /\ trips # <<>>

\* C10, as claimed: for the count query no limit is appended, and the result
\* has one row, one column and row_count = 1.
C10_AsClaimed ==
    IsExec /\ call.sql = CountQuery
        => /\ db_log = <<CountQuery>>
           /\ ~call.out.raised
           /\ Len(call.out.value.data) = 1
           /\ Len(call.out.value.columns) = 1
           /\ call.out.value.row_count = 1

\* C10, amended: for the count query the row cap is appended as a LIMIT, and
\* the result has one row, one column and row_count = 1.
C10_CountQueryOneRow ==
    IsExec /\ call.sql = CountQuery
        => /\ db_log = <<CountQuery \o " LIMIT " \o ToString(call.limit)>>
           /\ ~call.out.raised
           /\ Len(call.out.value.data) = 1
           /\ Len(call.out.value.columns) = 1
           /\ call.out.value.row_count = 1

\* the count query under the default row cap, on a table with several rows
C10_Witness ==
    /\ IsExec
    /\ call.sql = CountQuery
    /\ call.limit = DefaultLimit
    /\ Len(trips) > 1
    /\ ~call.out.raised
    /\ call.out.value.row_count = 1

-----------------------------------------------------------------------------
(* Properties of the renderings *)

IsFormat == render.site = "format_results_for_llm"
IsRendered == render.site # "none"

\* C12: formatting a QueryResult whose success flag is false or whose row
\* sequence is empty yields exactly the text "No results found."
C12_NoResultsLiteral ==
    (IsFormat /\ (~render.results.success \/ render.results.data = <<>>))
        => render.text = "No results found."

\* a failed result that carries rows was formatted
C12_Witness ==
    /\ IsFormat
    /\ ~render.results.success
    /\ Len(render.results.data) = 2
    /\ render.text = "No results found."

RECURSIVE Lines(_)
\* the lines of a text, split at the line feeds
Lines(text) ==
    IF \A i \in 1..Len(text) : SubSeq(text, i, i) # "\n" THEN <<text>>
    ELSE LET n == CHOOSE i \in 1..Len(text) :
                      /\ SubSeq(text, i, i) = "\n"
                      /\ \A j \in 1..(i - 1) : SubSeq(text, j, j) # "\n"
         IN  <<SubSeq(text, 1, n - 1)>> \o Lines(SubSeq(text, n + 1, Len(text)))

NotBlank(line) == line # ""

\* the rows a site shows at most
ClaimedMaxRows(site) == IF site = "format_results_for_llm" THEN 10 ELSE 20

RECURSIVE ExpectedRows(_, _, _)
\* rows i..k of a result as "Row i:" and one "column: value" line per column
ExpectedRows(results, i, k) ==
    IF i > k THEN <<>>
    ELSE <<"Row " \o ToString(i) \o ":">>
         \o [c \in 1..Len(results.columns) |->
                "  " \o results.columns[c] \o ": "
                     \o str(results.data[i][results.columns[c]])]
         \o ExpectedRows(results, i + 1, k)

\* the layout of a successful result with rows, blank lines left out
ExpectedLayout(results, maxRows) ==
    LET shown == IF results.row_count < maxRows THEN results.row_count ELSE maxRows
    IN  <<"Query returned " \o ToString(results.row_count) \o " rows.",
          "Columns: " \o join(", ", results.columns)>>
        \o ExpectedRows(results, 1, shown)
        \o (IF results.row_count > maxRows
            THEN <<"... and " \o ToString(results.row_count - maxRows) \o " more rows">>
            ELSE <<>>)

\* C13: for a successful result with rows, both renderings give the header
\* with the row count and the column names, then exactly min(row_count,
\* maxRows) rows in result order, and the note of row_count - maxRows omitted
\* rows exactly when row_count > maxRows (maxRows is 10 in
\* format_results_for_llm and 20 in generate_response)
C13_HeaderRowsNote ==
    (IsRendered /\ render.results.success /\ render.results.data # <<>>)
        => SelectSeq(Lines(render.text), NotBlank)
               = ExpectedLayout(render.results, ClaimedMaxRows(render.site))

\* a result of more rows than either site shows was rendered in the prompt of
\* generate_response, with its note
C13_Witness ==
    /\ render.site = "generate_response"
    /\ render.results.success
    /\ render.results.row_count = 21
    /\ Len(SelectSeq(Lines(render.text), NotBlank)) = 2 + 20 * 3 + 1

\* a result of more rows than format_results_for_llm shows was formatted
C13_WitnessFormat ==
    /\ IsFormat
    /\ render.results.success
    /\ render.results.row_count = 11
    /\ Len(render.results.columns) = 1
    /\ Len(SelectSeq(Lines(render.text), NotBlank)) = 2 + 10 * 2 + 1

-----------------------------------------------------------------------------
(* Properties of the orchestrator *)

IsRequest == request.op = "process_message"

\* a generated text the validator accepts, as handed to the engine
IsValidatedStatement(sent) ==
    \E sql \in ChatSqls, limit \in RowCaps :
        sent = statement_text(sql, limit) /\ ~validate_sql(sql).raised

\* C11: after any sequence of process_message and execute_query calls with
\* arbitrary generated SQL texts, the trip records are the same as before,
\* and only texts that passed validation reached the storage engine
C11_TripsNeverModified ==
    /\ trips = ChatTrips
    /\ \A i \in 1..Len(db_log) : IsValidatedStatement(db_log[i])

\* a request whose generated text is destructive was made, and one whose text
\* reached the engine
C11_Witness ==
    /\ IsRequest
    /\ db_log = <<"SELECT * FROM uber_trips LIMIT 1000">>
    /\ request.out.value.success
    /\ Len(trips) >= 2
    /\ trips = request.trips_before

C11_WitnessRejected ==
    /\ IsRequest
    /\ db_log = <<>>
    /\ request.out.value.error = ForbiddenMsg("DELETE")
    /\ Len(trips) >= 2

\* the dictionary process_message returned
Outcome == request.out.value
HasKey(d, key) == key \in DOMAIN d

\* the collaborator call of this name that did not return, if any
CallFailed(name) ==
    \E i \in 1..Len(request.trace) :
        request.trace[i].call = name /\ ~request.trace[i].ok
CallReturned(name) ==
    \E i \in 1..Len(request.trace) :
        request.trace[i].call = name /\ request.trace[i].ok

\* schema lookup, validation or execution failed: SQLServiceError was raised
SqlFailed == CallFailed("get_schema_info") \/ CallFailed("execute_query")

\* the secondary call, the one for the error explanation, failed
ExplanationFailed == IsRequest /\ SqlFailed /\ CallFailed("generate_response")

\* the textual reason of the failure being explained
FailureReason ==
    IF CallFailed("get_schema_info") THEN SchemaFailedMsg
    ELSE LET v == validate_sql(request.generated)
         IN  IF v.raised THEN v.error ELSE ExecutionFailedMsg

\* the turns of a session, in creation order
TurnsOf(rows, session_id) ==
    LET Own(m) == m.session_id = session_id
        own == SelectSeq(rows, Own)
    IN  [i \in 1..Len(own) |-> <<own[i].role, own[i].content>>]

\* the session the request used: the one named, or the one created for it
SessionsCreated ==
    {sessions[i] : i \in 1..Len(sessions)}
        \ {request.sessions_before[i] : i \in 1..Len(request.sessions_before)}
SessionUsed(id) ==
    IF request.session_id # "" THEN id = request.session_id
    ELSE SessionsCreated = {id}

\* the rows the request added to table messages
MessagesAdded ==
    SubSeq(messages, Len(request.messages_before) + 1, Len(messages))

\* C14: when process_message is called without a session identifier and the
\* pipeline succeeds, a new session identifier is created, and afterwards that
\* session holds exactly one user turn (the question) followed by exactly one
\* assistant turn (the answer)
C14_FirstMessageNewSession ==
    (IsRequest /\ request.session_id = "" /\ ~request.out.raised /\ Outcome.success)
        => /\ Outcome.session_id # ""
           /\ ~session_exists(request.sessions_before, Outcome.session_id)
           /\ session_exists(sessions, Outcome.session_id)
           /\ TurnsOf(messages, Outcome.session_id)
                  = << <<"user", request.user_message>>,
                       <<"assistant", Outcome.response>> >>

\* a second session was created for a request without identifier that succeeded
C14_Witness ==
    /\ IsRequest
    /\ request.session_id = ""
    /\ Outcome.success
    /\ Len(request.sessions_before) >= 1
    /\ Len(request.messages_before) = 2
    /\ Len(messages) = 4

\* C15: when validation or execution fails and the error-explanation call
\* throws too, process_message does not raise and returns the fixed template
\* embedding the reason of the original failure, success = false and
\* sql_query = null
C15_FallbackTemplate ==
    ExplanationFailed
        => /\ ~request.out.raised
           /\ Outcome.response = "I encountered an error processing your query: "
                                    \o FailureReason
                                    \o ". Please try rephrasing your question."
           /\ Outcome.success = FALSE
           /\ Outcome.sql_query = None

\* the validator refused the generated text and the explanation call threw
C15_Witness ==
    /\ ExplanationFailed
    /\ request.generated = "DROP TABLE uber_trips"
    /\ Outcome.response = FallbackText(ForbiddenMsg("DROP"))

\* the engine refused the generated text and the explanation call threw
C15_WitnessExecution ==
    /\ ExplanationFailed
    /\ request.generated = "SELECT fare FROM uber_trips"
    /\ Outcome.response = FallbackText(ExecutionFailedMsg)

\* C16: every call of process_message returns a result object with a success
\* flag and a response text and never raises, whichever collaborator fails
C16_NeverRaises ==
    IsRequest
        => /\ ~request.out.raised
           /\ HasKey(Outcome, "success") /\ Outcome.success \in BOOLEAN
           /\ HasKey(Outcome, "response") /\ Len(Outcome.response) > 0

\* execution failed, the explanation was generated, and the write of the
\* user turn failed
C16_Witness ==
    /\ IsRequest
    /\ CallFailed("execute_query")
    /\ CallReturned("generate_response")
    /\ CallFailed("add_message")
    /\ ~request.out.raised

\* the primary generation call failed
C16_WitnessGeneration ==
    /\ IsRequest
    /\ CallFailed("generate_sql_query")
    /\ ~request.out.raised
    /\ Outcome.response = UnexpectedText

\* the user turn and the assistant turn with the returned text were stored in
\* the session of the request
BothTurnsPersisted ==
    /\ ~request.out.raised
    /\ \E id \in {MessagesAdded[i].session_id : i \in 1..Len(MessagesAdded)} :
        /\ SessionUsed(id)
        /\ MessagesAdded =
              <<[session_id |-> id, role |-> "user", content |-> request.user_message],
                [session_id |-> id, role |-> "assistant", content |-> Outcome.response]>>

\* every call of the session service returned
StorageWorked ==
    /\ ~CallFailed("session_exists")
    /\ ~CallFailed("create_session")
    /\ ~CallFailed("get_recent_conversation_history")
    /\ ~CallFailed("add_message")

\* C17: on every path of process_message except the one where the
\* error-explanation call fails, the user's message and the produced assistant
\* message are both persisted (stated for the requests in which the session
\* store itself works)
C17_PersistedUnlessExplanationFailed ==
    (IsRequest /\ StorageWorked /\ ~ExplanationFailed) => BothTurnsPersisted

\* C18: when the error-explanation call fails, process_message leaves the
\* message history unchanged: neither the user turn nor the fallback is stored
C18_FallbackStoresNothing ==
    ExplanationFailed => messages = request.messages_before

\* the explanation call failed in a request on a session that has a history
C18_Witness ==
    /\ ExplanationFailed
    /\ request.session_id = "s1"
    /\ Len(TurnsOf(request.messages_before, "s1")) = 2
    /\ Outcome.response = FallbackText(FailureReason)

\* C19: every outcome of process_message, on success and on every failure
\* path, carries the identifier of the session used or created for the request
\* (stated for the requests in which the session store itself works)
C19_OutcomeCarriesSession ==
    (IsRequest /\ StorageWorked)
        => /\ ~request.out.raised
           /\ HasKey(Outcome, "session_id")
           /\ SessionUsed(Outcome.session_id)

\* C20: in every outcome sql_query is non-null and the result metadata (row
\* count, columns) is present if and only if success is true; on every failure
\* sql_query is null and the metadata is left out, also when a SQL text had
\* been generated or executed
C20_SqlAndMetadataIffSuccess ==
    (IsRequest /\ ~request.out.raised)
        => /\ Outcome.success <=> Outcome.sql_query # None
           /\ Outcome.success <=> HasKey(Outcome, "query_results")
           /\ Outcome.success
                => /\ Outcome.sql_query = request.generated
                   /\ DOMAIN Outcome.query_results = {"row_count", "columns"}

\* a failure after the generated text was executed
C20_Witness ==
    /\ IsRequest
    /\ ~Outcome.success
    /\ request.generated = "SELECT * FROM uber_trips"
    /\ db_log # <<>>
    /\ Outcome.sql_query = None
    /\ ~HasKey(Outcome, "query_results")

\* the number of calls of a collaborator in the request
Calls(name) ==
    Cardinality({i \in 1..Len(request.trace) : request.trace[i].call = name})

\* C21: when the primary SQL-generation call fails, process_message attempts
\* neither the error-explanation call nor any query execution, and returns the
\* Unexpected outcome: success = false, the generic apology, sql_query = null
C21_GenerationFailureUnexpected ==
    (IsRequest /\ CallFailed("generate_sql_query"))
        => /\ ~request.out.raised
           /\ Calls("generate_response") = 0
           /\ Calls("execute_query") = 0
           /\ db_log = <<>>
           /\ Outcome.success = FALSE
           /\ Outcome.response
                  = "I'm sorry, I encountered an unexpected error. Please try again."
           /\ Outcome.sql_query = None

\* the SQL generation failed in a request on a session that has a history
C21_Witness ==
    /\ IsRequest
    /\ CallFailed("generate_sql_query")
    /\ request.session_id = "s1"
    /\ Len(request.messages_before) = 2
    /\ Calls("get_schema_info") = 1
    /\ Outcome.error = GenerationFailedMsg

\* the conversation contexts handed to the text-generation calls of the request
LlmContexts ==
    {request.trace[i].context :
        i \in {j \in 1..Len(request.trace) :
                  request.trace[j].call \in {"generate_sql_query", "generate_response"}}}

\* the turns stored for the session of the request before it was made
StoredTurns ==
    LET Own(m) == m.session_id = request.session_id
        own == SelectSeq(request.messages_before, Own)
    IN  [i \in 1..Len(own) |-> [role |-> own[i].role, content |-> own[i].content]]

C22_WitnessStored ==
    /\ IsRequest
    /\ request.session_id = "s1"
    /\ request.conversation_history.is_none
    /\ Len(StoredTurns) = 2
    /\ CallReturned("generate_response")
    /\ LlmContexts = {StoredTurns}

\* the turns stored for a session, in creation order
TurnsStored(session_id) ==
    LET Own(m) == m.session_id = session_id
        own == SelectSeq(messages, Own)
    IN  [i \in 1..Len(own) |-> [role |-> own[i].role, content |-> own[i].content]]

\* the last n elements of a sequence, all of them when it has fewer
Suffix(seq, n) ==
    IF Len(seq) <= n THEN seq ELSE SubSeq(seq, Len(seq) - n + 1, Len(seq))

\* C23: the conversation context given to a text-generation call has at most
\* N = max_context_messages turns, and for a stored history it is exactly
\* the N most recently stored turns of the session in chronological order, a
\* suffix of the full history, for a session of any length
C23_ContextIsRecentSuffix ==
    /\ request.op \in {"get_recent_conversation_history", "generate_sql_query"}
            => /\ Len(request.context) <= max_context_messages
               /\ request.context = Suffix(request.history, max_context_messages)
    /\ request.op = "get_recent_conversation_history"
            => request.context
                   = Suffix(TurnsStored(request.session_id), max_context_messages)

\* the history of a session of twelve stored turns was recalled: the context
\* starts at the third
C23_Witness ==
    /\ request.op = "get_recent_conversation_history"
    /\ Len(TurnsStored(request.session_id)) = 12
    /\ Len(request.context) = 10
    /\ request.context[1].content = "turn 3"
    /\ request.context[10].content = "turn 12"

\* the place of a call in the pipeline; the session lookups come before it
StepRank(name) ==
    CASE name = "get_schema_info" -> 1
      [] name = "generate_sql_query" -> 2
      [] name = "execute_query" -> 3
      [] name = "generate_response" -> 4
      [] name = "add_message" -> 5
      [] OTHER -> 0

\* the position in the trace of the first call of this name, 0 if there is none
FirstCall(name) ==
    LET at == {i \in 1..Len(request.trace) : request.trace[i].call = name}
    IN  IF at = {} THEN 0 ELSE CHOOSE i \in at : \A j \in at : i <= j

\* C24: within one request the steps happen strictly in the order schema
\* lookup, SQL generation, validation, execution, answer generation,
\* persistence: the engine executes a query only after validation accepted it,
\* the answer over results is generated only after a successful execution,
\* and messages are persisted only after the assistant text was produced
C24_PipelineOrder ==
    IsRequest
        => /\ \A i, j \in 1..Len(request.trace) :
                  i < j => \/ StepRank(request.trace[i].call)
                                < StepRank(request.trace[j].call)
                           \/ /\ StepRank(request.trace[i].call)
                                    = StepRank(request.trace[j].call)
                              /\ StepRank(request.trace[i].call) \in {0, 5}
           /\ \A i \in 1..Len(request.trace) :
                  StepRank(request.trace[i].call) > 1
                      => /\ i > 1
                         /\ request.trace[i - 1].ok
                                \/ request.trace[i].call = "generate_response"
           /\ db_log # <<>>
                  => /\ CallReturned("generate_sql_query")
                     /\ Calls("execute_query") = 1
                     /\ ~validate_sql(request.generated).raised
                     /\ \A k \in 1..Len(db_log) : IsValidatedStatement(db_log[k])
           /\ (Calls("generate_response") > 0 /\ ~SqlFailed)
                  => /\ CallReturned("execute_query")
                     /\ db_log # <<>>
           /\ Calls("add_message") > 0
                  => /\ CallReturned("generate_response")
                     /\ FirstCall("generate_response") < FirstCall("add_message")
           /\ messages # request.messages_before => CallReturned("generate_response")

\* a request that went through every step, the two writes included
C24_Witness ==
    /\ IsRequest
    /\ Outcome.success
    /\ db_log # <<>>
    /\ Calls("add_message") = 2
    /\ FirstCall("get_schema_info") > 0
    /\ FirstCall("get_schema_info") < FirstCall("generate_sql_query")
    /\ FirstCall("generate_sql_query") < FirstCall("execute_query")
    /\ FirstCall("execute_query") < FirstCall("generate_response")
    /\ FirstCall("generate_response") < FirstCall("add_message")

\* C25: no step is retried: in one process_message call there is at most one
\* SQL-generation call, at most one query execution and at most one
\* prose-generation call (the answer or the error explanation, never both),
\* and the call ends, with a value, after a bounded number of calls
C25_NoRetry ==
    IsRequest
        => /\ Calls("generate_sql_query") <= 1
           /\ Calls("execute_query") <= 1
           /\ Len(db_log) <= 1
           /\ Calls("generate_response") <= 1
           /\ Calls("get_schema_info") <= 1
           /\ Calls("add_message") <= 2
           /\ Len(request.trace) <= 9
           /\ ~request.out.raised
           /\ \A i \in 1..(Len(request.trace) - 1) :
                  ~request.trace[i].ok
                      => /\ request.trace[i].call \in {"get_schema_info", "execute_query"}
                         /\ request.trace[i + 1].call = "generate_response"

\* the execution failed and the explanation failed too: one call of each
C25_Witness ==
    /\ IsRequest
    /\ CallFailed("execute_query")
    /\ CallFailed("generate_response")
    /\ Calls("generate_sql_query") = 1
    /\ Calls("execute_query") = 1
    /\ Calls("generate_response") = 1

\* the number of turns of this role stored for the session
TurnCount(session_id, role) ==
    Cardinality({i \in 1..Len(messages) :
                    messages[i].session_id = session_id /\ messages[i].role = role})

\* C28: the user turn and the assistant turn of one request are persisted
\* together or not at all: after any process_message call has returned, the
\* session holds as many user turns as assistant turns, also when the second
\* add_message write fails after the first one was committed
C28_TurnsTogether ==
    IsRequest
        => \A i \in 1..Len(sessions) :
               TurnCount(sessions[i], "user") = TurnCount(sessions[i], "assistant")

\* C30: the response of POST /chat delivered to the client contains the
\* identifier of the session the orchestrator used or created (stated for the
\* successful requests)
C30_ResponseCarriesSession ==
    (IsRequest /\ ~request.out.raised /\ Outcome.success)
        => /\ request.delivered.status_code = 200
           /\ HasKey(request.delivered.body, "session_id")
           /\ SessionUsed(request.delivered.body.session_id)

\* the messages of a session in a table of messages
MessagesOf(rows, session_id) ==
    LET Own(m) == m.session_id = session_id
    IN  SelectSeq(rows, Own)

\* C26: after any sequence of create_session, add_message, delete_session and
\* process_message calls every stored message belongs to an existing session:
\* delete_session removes the session with all of its messages (and returns
\* False, changing nothing, when the session does not exist), and a later
\* request that names the deleted identifier starts from an empty history
C26_NoOrphanMessages ==
    /\ \A i \in 1..Len(messages) : session_exists(sessions, messages[i].session_id)
    /\ (call.op = "delete_session" /\ request.op = "none")
            => IF session_exists(call.before.sessions, call.session_id)
               THEN /\ call.returned
                    /\ ~session_exists(sessions, call.session_id)
                    /\ MessagesOf(messages, call.session_id) = <<>>
                    /\ \A id \in SessionIds :
                           id # call.session_id
                               => /\ MessagesOf(messages, id)
                                         = MessagesOf(call.before.messages, id)
                                  /\ session_exists(sessions, id)
                                         = session_exists(call.before.sessions, id)
               ELSE /\ ~call.returned
                    /\ sessions = call.before.sessions
                    /\ messages = call.before.messages
    /\ (call.op = "delete_session" /\ IsRequest
            /\ request.session_id = call.session_id
            /\ request.conversation_history.is_none)
            => /\ MessagesOf(request.messages_before, call.session_id) = <<>>
               /\ \A i \in 1..Len(request.trace) :
                      request.trace[i].call \in {"generate_sql_query", "generate_response"}
                          => request.trace[i].context = <<>>

\* a session with stored messages was deleted, and the next request names it:
\* the generation calls are made with an empty context
C26_Witness ==
    /\ call.op = "delete_session"
    /\ call.returned
    /\ Len(MessagesOf(call.before.messages, call.session_id)) >= 2
    /\ IsRequest
    /\ request.session_id = call.session_id
    /\ request.conversation_history.is_none
    /\ Calls("generate_sql_query") = 1
    /\ Outcome.success

\* delete_session of an identifier no session has
C26_WitnessAbsent ==
    /\ call.op = "delete_session"
    /\ ~call.returned
    /\ Len(messages) > 0

\* every request received has returned
Quiescent == \A p \in Procs : inflight[p].pc \in {"idle", "done"}

\* the request that stored this turn
RequestOf(m) ==
    CHOOSE p \in Procs : m.content \in {QuestionOf(p), AnswerOf(p)}

\* C27: in every session the stored history read in creation order is a
\* sequence of (user turn, assistant turn) pairs, each user turn immediately
\* followed by the assistant turn of the same request, also when several
\* requests on the same session identifier run concurrently
C27_PairsAdjacent ==
    Quiescent
        => \A id \in ConcurrentSessionIds :
               LET own == MessagesOf(messages, id)
               IN  /\ Len(own) % 2 = 0
                   /\ \A k \in 1..(Len(own) \div 2) :
                          /\ own[2 * k - 1].role = "user"
                          /\ own[2 * k].role = "assistant"
                          /\ RequestOf(own[2 * k - 1]) = RequestOf(own[2 * k])

\* C29: in every reachable state there is at most one session record per
\* session identifier: create_session on an existing identifier creates no
\* duplicate, and when two concurrent requests name the same not-yet-existing
\* identifier exactly one session record results and each request returns a
\* well-formed outcome
C29_OneSessionRecord ==
    /\ \A i, j \in 1..Len(sessions) : sessions[i] = sessions[j] => i = j
    /\ \A p \in Procs :
           inflight[p].pc \notin {"idle", "lookup"}
               => session_exists(sessions, inflight[p].session_id)
                      \/ inflight[p].pc \in {"check", "insert"}
    /\ \A p \in Procs :
           inflight[p].pc = "done"
               => /\ ~inflight[p].out.raised
                  /\ {"success", "response"} \subseteq DOMAIN inflight[p].out.value
                  /\ inflight[p].out.value.success \in BOOLEAN
                  /\ Len(inflight[p].out.value.response) > 0
                  /\ Cardinality({i \in 1..Len(sessions) :
                                     sessions[i] = inflight[p].session_id}) = 1

\* two requests named a session that did not exist, both went on to insert
\* it: one insert was refused, one record is stored, both requests returned
C29_Witness ==
    /\ inflight[1].pc = "done" /\ inflight[2].pc = "done"
    /\ inflight[1].session_id = "s1" /\ inflight[2].session_id = "s1"
    /\ inflight[1].out.value.success
    /\ ~inflight[2].out.value.success
    /\ inflight[2].out.value.error = IntegrityMsg
    /\ sessions = <<"s1">>

\* create_session found the session another request had created meanwhile
C29_WitnessExisting ==
    /\ inflight[1].pc = "done" /\ inflight[2].pc = "done"
    /\ inflight[1].out.value.success /\ inflight[2].out.value.success
    /\ sessions = <<"s1">>
    /\ Len(messages) = 4

TypeOK ==
    /\ iter_order \in IterationOrders
    /\ call.op \in {"none", "validate_sql", "execute_query",
                   "create_session", "add_message", "delete_session"}
====
